---- MODULE Spec2Model ----
(***************************************************************************)
(* Model of the batch client of process_max_batch (src/client/main.go):   *)
(* the shared queue (Queue.Batch under Queue.Mutex), the producers         *)
(* (HandleProcess), the stop request (HandleStop on the unbuffered         *)
(* Channel) and the drain goroutine started by RunProcess, which calls     *)
(* ProcessQueue in a loop and keeps the quota window in processedItems.    *)
(*                                                                         *)
(* Items are values of type Item struct{}; the model tags each appended    *)
(* item with the number of its append (1, 2, 3, ...) so that order,        *)
(* duplication and loss can be observed.  The variables appended,          *)
(* removedLog, sentLog, failStreak and capSeen are history variables: no   *)
(* action of the program reads them.                                       *)
(***************************************************************************)
EXTENDS Integers, Sequences, FiniteSets, TLC

\* ---------------------------------------------------------------- bounds
\* Largest limits.Number the remote side answers with.
MaxNumber == 3
\* Largest limits.Duration (in clock ticks) the remote side answers with.
MaxDuration == 1
\* Total number of items the producers append in one run.
MaxItems == 3

\* Failed submissions in a row that the remote side produces under Spec (under
\* SpecDown every submission fails and the code's own limit of 10 ends the run).
MaxFailStreak == 1

\* errorsCount >= 10 ends the loop (RunProcess).
ErrorLimit == 10

\* Timestamps are kept relative to a sliding origin: the clock reads Horizon
\* (the value of time.Now() at startup is of no account, only differences of
\* timestamps are) and every tick shifts all stored timestamps down by one.
\* An entry shifted below 0 is older than MaxDuration, hence expired for every
\* later reading of the clock.  Tick slides the origin only past entries that
\* the program's own test finds expired, and not past an entry that a running
\* range has yet to visit: at Horizon that entry is expired already, so the
\* visit deletes it whenever it comes.
Horizon == MaxDuration + 1

Producers == {"p1", "p2"}

\* The request bodies that ShouldBindJSON refuses: no body at all, and a body
\* that is not the JSON of a ProcessRequest.  (A body it accepts is "list".)
BadBodies == {"absent", "malformed"}

\* The HandleStop requests of one run.
Stoppers == {"s1"}

VARIABLES
    QueueBatch,      \* Queue.Batch: the pending items, head first
    QueueMutex,      \* Queue.Mutex: "free", "drain" or the producer holding it
    TotalProcessed,  \* TotalProcessed
    limits,          \* limits fetched by RunProcess: [Number, Duration]
    processedItems,  \* processedItems: map timestamp -> count
    errorsCount,     \* errorsCount of the goroutine
    pc,              \* position of RunProcess / the goroutine / ProcessQueue
    limit,           \* ProcessQueue's local limit
    todo,            \* keys the range over processedItems has not visited yet
    jsonData,        \* the marshalled prefix Queue.Batch[:limit]
    stopPc,          \* per HandleStop request: "idle", "sending" (blocked in
                     \* Channel <- struct{}{}) or "done" (answered)
    now,             \* time.Now().UnixNano(), in ticks from the sliding origin
    prod,            \* per producer: position, body and item count of its
                     \* last request, response
    appended,        \* history: number of items appended so far
    removedLog,      \* history: items removed from the queue, in order
    sentLog,         \* history: items submitted per age in ticks (saturating)
    failStreak,      \* history: failed submissions since the last success
    capSeen          \* history: remaining capacities during the current scan

vars == <<QueueBatch, QueueMutex, TotalProcessed, limits, processedItems,
          errorsCount, pc, limit, todo, jsonData, stopPc, now,
          prod, appended, removedLog, sentLog, failStreak, capSeen>>

\* ---------------------------------------------------------------- helpers
Min(a, b) == IF a < b THEN a ELSE b
Max(a, b) == IF a > b THEN a ELSE b

NoLimits == [Number |-> 0, Duration |-> 0]
EmptyMap == [k \in {} |-> 0]
NoResponse == [status |-> 0, success |-> FALSE, error |-> ""]

RECURSIVE SumOver(_, _)
SumOver(m, keys) ==
    IF keys = {} THEN 0
    ELSE LET k == CHOOSE x \in keys : TRUE
         IN  m[k] + SumOver(m, keys \ {k})

\* Mutant: the two sides of the comparison are swapped, no entry ever expires.
Expired_Swapped(timestamp, t, duration) == timestamp > t + duration

\* Mutant: the entry with timestamp + D = now is already taken for expired.
Expired_Early(timestamp, t, duration) == t >= timestamp + duration

\* if time.Now().UnixNano() > timestamp+int64(limits.Duration)
Expired(timestamp, t, duration) == t > timestamp + duration

\* Mutant: the new items are put in front of the queue.
AppendItems_AtHead(batch, count, k) == [i \in 1..k |-> count + i] \o batch

\* Queue.Batch = append(Queue.Batch, data.Data...): k new items, numbered
\* after the `count` items appended before them.
AppendItems(batch, count, k) == batch \o [i \in 1..k |-> count + i]

\* if len(Queue.Batch) < limit { limit = len(Queue.Batch) }
ClampLimit(lim, len) == IF len < lim THEN len ELSE lim

\* Queue.Batch[:limit]
TakePrefix(batch, n) == SubSeq(batch, 1, n)

\* Mutant: the last n items are cut off instead of the first n.
RemoveHead_Tail(batch, n) ==
    IF Len(batch) <= n THEN <<>> ELSE SubSeq(batch, 1, Len(batch) - n)

\* if len(Queue.Batch) <= limit { Queue.Batch = []Item{} }
\* else { Queue.Batch = Queue.Batch[limit:] }
RemoveHead(batch, n) ==
    IF Len(batch) <= n THEN <<>> ELSE SubSeq(batch, n + 1, Len(batch))

\* processedItems[time.Now().UnixNano()] = limit
Record(m, t, n) == [k \in DOMAIN m \cup {t} |-> IF k = t THEN n ELSE m[k]]

\* delete(processedItems, timestamp)
Delete(m, t) == [k \in DOMAIN m \ {t} |-> m[k]]

\* Mutant: the counter counts batches, not items.
AddProcessed_One(total, n) == total + 1

\* TotalProcessed += limit
AddProcessed(total, n) == total + n

\* errorsCount++ on an error, errorsCount = 0 otherwise
NextErrorsCount(e, failed) == IF failed THEN e + 1 ELSE 0

\* if errorsCount >= 10 { return }
StreakExhausted(e) == e >= ErrorLimit

\* The sliding origin: every stored timestamp moves down by one.
ShiftMap(m) == [k \in {j - 1 : j \in DOMAIN m \ {0}} |-> m[k + 1]]
ShiftKeys(s) == {j - 1 : j \in s \ {0}}
\* sentLog[a] is the number of items submitted a ticks ago, for the ages
\* a < MaxDuration that a window (now - D, now] can cover; a tick ages it.
AgeLog(l) == [a \in 0..(MaxDuration - 1) |-> IF a = 0 THEN 0 ELSE l[a - 1]]

\* Remaining capacity of the quota window m at time t as the specification
\* states it: the limit less the counts of the entries with
\* timestamp + D >= t, clamped at 0.
RemainingCapacity(m, t) ==
    Max(0, limits.Number
           - SumOver(m, {k \in DOMAIN m : k + limits.Duration >= t}))

Range(seq) == {seq[i] : i \in DOMAIN seq}

\* The items of `before` that are no longer in `after`, in their order.
Gone(before, after) == SelectSeq(before, LAMBDA x : x \notin Range(after))

Stopped == pc \in {"stopped", "exited"}

\* ---------------------------------------------------------------- Init
Init ==
    /\ QueueBatch = <<>>
    /\ QueueMutex = "free"
    /\ TotalProcessed = 0
    /\ limits = NoLimits
    /\ processedItems = EmptyMap
    /\ errorsCount = 0
    /\ pc = "init"
    /\ limit = 0
    /\ todo = {}
    /\ jsonData = <<>>
    /\ stopPc = [h \in Stoppers |-> "idle"]
    /\ now = Horizon
    /\ prod = [p \in Producers |->
                 [pc |-> "idle", body |-> "", len |-> 0, resp |-> NoResponse]]
    /\ appended = 0
    /\ removedLog = <<>>
    /\ sentLog = [a \in 0..(MaxDuration - 1) |-> 0]
    /\ failStreak = 0
    /\ capSeen = {}

\* ---------------------------------------------------------------- clock
\* time.Now() advances between any two steps of the program.
Tick ==
    /\ 0 \notin todo
    /\ \A k \in DOMAIN processedItems :
            k = 0 => Expired(k, now + 1, limits.Duration)
    /\ now' = now
    /\ processedItems' = ShiftMap(processedItems)
    /\ todo' = ShiftKeys(todo)
    /\ sentLog' = AgeLog(sentLog)
    /\ capSeen' = IF pc = "range"
                  THEN capSeen \cup {RemainingCapacity(processedItems', now')}
                  ELSE capSeen
    /\ UNCHANGED <<QueueBatch, QueueMutex, TotalProcessed, limits, errorsCount,
                   pc, limit, jsonData, stopPc, prod, appended,
                   removedLog, failStreak>>

\* ---------------------------------------------------------------- RunProcess
\* RunProcess fetched and decoded the limits and started the goroutine.
RunProcess_Start(n, d) ==
    /\ pc = "init"
    /\ limits' = [Number |-> n, Duration |-> d]
    /\ processedItems' = EmptyMap
    /\ errorsCount' = 0
    /\ pc' = "select"
    /\ UNCHANGED <<QueueBatch, QueueMutex, TotalProcessed, limit, todo, jsonData,
                   stopPc, now, prod, appended, removedLog,
                   sentLog, failStreak, capSeen>>

\* Mutant: the error is logged but the return is missing, the goroutine is
\* started with the zero limits.
RunProcess_Fail_Starts ==
    /\ pc = "init"
    /\ pc' = "select"
    /\ UNCHANGED <<QueueBatch, QueueMutex, TotalProcessed, limits, processedItems,
                   errorsCount, limit, todo, jsonData, stopPc, now,
                   prod, appended, removedLog, sentLog, failStreak, capSeen>>

\* RunProcess returned early: the request, the read or the decoding failed.
RunProcess_Fail ==
    /\ pc = "init"
    /\ pc' = "nofetch"
    /\ UNCHANGED <<QueueBatch, QueueMutex, TotalProcessed, limits, processedItems,
                   errorsCount, limit, todo, jsonData, stopPc, now,
                   prod, appended, removedLog, sentLog, failStreak, capSeen>>

\* ---------------------------------------------------------------- HandleProcess
\* Mutant: the length check is missing, the empty list goes on to the mutex.
HandleProcess_Reject_Accepts(p) ==
    /\ pc # "init"
    /\ prod[p].pc = "idle"
    /\ QueueMutex = "free"
    /\ QueueMutex' = p
    /\ prod' = [prod EXCEPT ![p] = [pc |-> "append", body |-> "list",
                                    len |-> 0, resp |-> NoResponse]]
    /\ UNCHANGED <<QueueBatch, TotalProcessed, limits, processedItems,
                   errorsCount, pc, limit, todo, jsonData, stopPc, now, appended,
                   removedLog, sentLog, failStreak, capSeen>>

\* A request with an empty item list: len(data.Data) == 0, answered with 400
\* and "No items provided".
HandleProcess_Reject(p) ==
    /\ pc # "init"
    /\ prod[p].pc = "idle"
    /\ prod' = [prod EXCEPT ![p] =
                  [pc |-> "idle", body |-> "list", len |-> 0,
                   resp |-> [status |-> 400, success |-> FALSE,
                             error |-> "No items provided"]]]
    /\ UNCHANGED <<QueueBatch, QueueMutex, TotalProcessed, limits, processedItems,
                   errorsCount, pc, limit, todo, jsonData, stopPc, now, appended,
                   removedLog, sentLog, failStreak, capSeen>>

\* The error of c.ShouldBindJSON(&data), as a text: "invalid request" for a
\* request without a body (TestEmptyRequestHandleProcess), the decoder's
\* complaint for a body that does not parse.
BindError(body) ==
    IF body = "absent" THEN "invalid request" ELSE "invalid character"

\* Mutant: the binding error is not looked at, the zero-valued request goes
\* on to the length check.
HandleProcess_BadRequest_FallsThrough(p, body) ==
    /\ pc # "init"
    /\ prod[p].pc = "idle"
    /\ prod' = [prod EXCEPT ![p] =
                  [pc |-> "idle", body |-> body, len |-> 0,
                   resp |-> [status |-> 400, success |-> FALSE,
                             error |-> "No items provided"]]]
    /\ UNCHANGED <<QueueBatch, QueueMutex, TotalProcessed, limits, processedItems,
                   errorsCount, pc, limit, todo, jsonData, stopPc, now, appended,
                   removedLog, sentLog, failStreak, capSeen>>

\* A request whose body does not bind: answered with 400, success = false
\* and err.Error().
HandleProcess_BadRequest(p, body) ==
    /\ pc # "init"
    /\ prod[p].pc = "idle"
    /\ prod' = [prod EXCEPT ![p] =
                  [pc |-> "idle", body |-> body, len |-> 0,
                   resp |-> [status |-> 400, success |-> FALSE,
                             error |-> BindError(body)]]]
    /\ UNCHANGED <<QueueBatch, QueueMutex, TotalProcessed, limits, processedItems,
                   errorsCount, pc, limit, todo, jsonData, stopPc, now, appended,
                   removedLog, sentLog, failStreak, capSeen>>

\* A request with k > 0 items passed the checks: Queue.Mutex.Lock().
HandleProcess_Lock(p, k) ==
    /\ pc # "init"
    /\ prod[p].pc = "idle"
    /\ k > 0
    /\ appended + k <= MaxItems
    /\ QueueMutex = "free"
    /\ QueueMutex' = p
    /\ prod' = [prod EXCEPT ![p] = [pc |-> "append", body |-> "list",
                                    len |-> k, resp |-> NoResponse]]
    /\ UNCHANGED <<QueueBatch, TotalProcessed, limits, processedItems,
                   errorsCount, pc, limit, todo, jsonData, stopPc, now, appended,
                   removedLog, sentLog, failStreak, capSeen>>

\* append, Queue.Mutex.Unlock(), 200 with success = true.
HandleProcess_Append(p) ==
    /\ prod[p].pc = "append"
    /\ QueueMutex = p
    /\ QueueBatch' = AppendItems(QueueBatch, appended, prod[p].len)
    /\ appended' = appended + prod[p].len
    /\ QueueMutex' = "free"
    /\ prod' = [prod EXCEPT ![p] =
                  [pc |-> "idle", body |-> "list", len |-> 0,
                   resp |-> [status |-> 200, success |-> TRUE, error |-> ""]]]
    /\ UNCHANGED <<TotalProcessed, limits, processedItems, errorsCount, pc, limit,
                   todo, jsonData, stopPc, now, removedLog,
                   sentLog, failStreak, capSeen>>

\* ---------------------------------------------------------------- HandleStop
\* Channel <- struct{}{}: the handler blocks until the goroutine receives.
HandleStop_Send(h) ==
    /\ pc # "init"
    /\ stopPc[h] = "idle"
    /\ stopPc' = [stopPc EXCEPT ![h] = "sending"]
    /\ UNCHANGED <<QueueBatch, QueueMutex, TotalProcessed, limits, processedItems,
                   errorsCount, pc, limit, todo, jsonData, now, prod, appended,
                   removedLog, sentLog, failStreak, capSeen>>

\* ---------------------------------------------------------------- goroutine
\* case <-Channel: a sender is waiting, the goroutine receives from it and
\* returns; the sender goes on to answer.
Loop_SelectStop(h) ==
    /\ pc = "select"
    /\ stopPc[h] = "sending"
    /\ stopPc' = [stopPc EXCEPT ![h] = "done"]
    /\ pc' = "stopped"
    /\ UNCHANGED <<QueueBatch, QueueMutex, TotalProcessed, limits, processedItems,
                   errorsCount, limit, todo, jsonData, now, prod, appended,
                   removedLog, sentLog, failStreak, capSeen>>

\* Mutant: the default case is taken although a sender is waiting.
Loop_SelectDefault_Racy ==
    /\ pc = "select"
    /\ pc' = "pq"
    /\ UNCHANGED <<QueueBatch, QueueMutex, TotalProcessed, limits, processedItems,
                   errorsCount, limit, todo, jsonData, stopPc, now,
                   prod, appended, removedLog, sentLog, failStreak, capSeen>>

\* default: no sender is waiting, ProcessQueue is called.
Loop_SelectDefault ==
    /\ pc = "select"
    /\ \A h \in Stoppers : stopPc[h] # "sending"
    /\ pc' = "pq"
    /\ UNCHANGED <<QueueBatch, QueueMutex, TotalProcessed, limits, processedItems,
                   errorsCount, limit, todo, jsonData, stopPc, now,
                   prod, appended, removedLog, sentLog, failStreak, capSeen>>

\* Mutant: the return at 10 errors in a row is missing.
Loop_AfterProcessQueue_NoReturn ==
    /\ pc \in {"retNil", "retErr"}
    /\ errorsCount' = NextErrorsCount(errorsCount, pc = "retErr")
    /\ pc' = "select"
    /\ limit' = 0
    /\ todo' = {}
    /\ jsonData' = <<>>
    /\ UNCHANGED <<QueueBatch, QueueMutex, TotalProcessed, limits, processedItems,
                   stopPc, now, prod, appended, removedLog,
                   sentLog, failStreak, capSeen>>

\* ProcessQueue returned: errorsCount is counted up or reset, and the
\* goroutine returns at 10 errors in a row.  The locals of the call are gone.
Loop_AfterProcessQueue ==
    /\ pc \in {"retNil", "retErr"}
    /\ errorsCount' = NextErrorsCount(errorsCount, pc = "retErr")
    /\ pc' = IF StreakExhausted(errorsCount') THEN "exited" ELSE "select"
    /\ limit' = 0
    /\ todo' = {}
    /\ jsonData' = <<>>
    /\ UNCHANGED <<QueueBatch, QueueMutex, TotalProcessed, limits, processedItems,
                   stopPc, now, prod, appended, removedLog,
                   sentLog, failStreak, capSeen>>

\* ---------------------------------------------------------------- ProcessQueue
\* if len(Queue.Batch) == 0 { return nil }, read without the mutex; otherwise
\* limit := int(limits.Number) and the range over processedItems begins.
ProcessQueue_CheckEmpty ==
    /\ pc = "pq"
    /\ IF Len(QueueBatch) = 0
       THEN /\ pc' = "retNil"
            /\ UNCHANGED <<limit, todo, capSeen>>
       ELSE /\ pc' = "range"
            /\ limit' = limits.Number
            /\ todo' = DOMAIN processedItems
            /\ capSeen' = {RemainingCapacity(processedItems, now)}
    /\ UNCHANGED <<QueueBatch, QueueMutex, TotalProcessed, limits, processedItems,
                   errorsCount, jsonData, stopPc, now, prod,
                   appended, removedLog, sentLog, failStreak>>

\* One iteration of the range: the entry is deleted when it is expired at the
\* clock value read for it, and counted against the limit otherwise.
ProcessQueue_Range(timestamp) ==
    /\ pc = "range"
    /\ timestamp \in todo
    /\ todo' = todo \ {timestamp}
    /\ IF Expired(timestamp, now, limits.Duration)
       THEN /\ processedItems' = Delete(processedItems, timestamp)
            /\ limit' = limit
       ELSE /\ processedItems' = processedItems
            /\ limit' = limit - processedItems[timestamp]
    /\ UNCHANGED <<QueueBatch, QueueMutex, TotalProcessed, limits, errorsCount,
                   pc, jsonData, stopPc, now, prod, appended,
                   removedLog, sentLog, failStreak, capSeen>>

\* if limit <= 0 { return nil }
ProcessQueue_CheckLimit ==
    /\ pc = "range"
    /\ todo = {}
    /\ pc' = IF limit <= 0 THEN "retNil" ELSE "lock"
    /\ capSeen' = IF limit <= 0 THEN {} ELSE capSeen
    /\ UNCHANGED <<QueueBatch, QueueMutex, TotalProcessed, limits, processedItems,
                   errorsCount, limit, todo, jsonData, stopPc, now,
                   prod, appended, removedLog, sentLog, failStreak>>

\* Queue.Mutex.Lock() before the prefix is read.
ProcessQueue_Lock ==
    /\ pc = "lock"
    /\ QueueMutex = "free"
    /\ QueueMutex' = "drain"
    /\ pc' = "marshal"
    /\ UNCHANGED <<QueueBatch, TotalProcessed, limits, processedItems, errorsCount,
                   limit, todo, jsonData, stopPc, now, prod,
                   appended, removedLog, sentLog, failStreak, capSeen>>

\* Mutant: the Unlock after the marshalling is missing, the mutex is held
\* until the removal.
ProcessQueue_Marshal_KeepsLock ==
    /\ pc = "marshal"
    /\ QueueMutex = "drain"
    /\ limit' = ClampLimit(limit, Len(QueueBatch))
    /\ jsonData' = TakePrefix(QueueBatch, limit')
    /\ pc' = "record"
    /\ capSeen' = {}
    /\ UNCHANGED <<QueueBatch, QueueMutex, TotalProcessed, limits, processedItems,
                   errorsCount, todo, stopPc, now, prod, appended, removedLog,
                   sentLog, failStreak>>

\* limit is cut to the queue length, Queue.Batch[:limit] is marshalled,
\* Queue.Mutex.Unlock().
ProcessQueue_Marshal ==
    /\ pc = "marshal"
    /\ QueueMutex = "drain"
    /\ limit' = ClampLimit(limit, Len(QueueBatch))
    /\ jsonData' = TakePrefix(QueueBatch, limit')
    /\ QueueMutex' = "free"
    /\ pc' = "record"
    /\ capSeen' = {}
    /\ UNCHANGED <<QueueBatch, TotalProcessed, limits, processedItems, errorsCount,
                   todo, stopPc, now, prod, appended, removedLog,
                   sentLog, failStreak>>

\* processedItems[time.Now().UnixNano()] = limit, then the request is built.
ProcessQueue_Record ==
    /\ pc = "record"
    /\ processedItems' = Record(processedItems, now, limit)
    /\ sentLog' = [sentLog EXCEPT ![0] = Min(limits.Number + 1, @ + limit)]
    /\ pc' = "submit"
    /\ UNCHANGED <<QueueBatch, QueueMutex, TotalProcessed, limits, errorsCount,
                   limit, todo, jsonData, stopPc, now, prod,
                   appended, removedLog, failStreak, capSeen>>

\* Mutant: the prefix is removed before the answer is known, so a failed
\* submission returns with the items gone.
ProcessQueue_SubmitFails_Removes ==
    /\ pc = "submit"
    /\ pc' = "retErr"
    /\ QueueBatch' = RemoveHead(QueueBatch, limit)
    /\ failStreak' = Min(ErrorLimit + 1, failStreak + 1)
    /\ UNCHANGED <<QueueMutex, TotalProcessed, limits, processedItems,
                   errorsCount, limit, todo, jsonData, stopPc, now,
                   prod, appended, removedLog, sentLog, capSeen>>

\* client.Do failed, the body could not be read or decoded, or the answer
\* has success = false: ProcessQueue returns the error.
ProcessQueue_SubmitFails ==
    /\ pc = "submit"
    /\ pc' = "retErr"
    /\ failStreak' = Min(ErrorLimit + 1, failStreak + 1)
    /\ UNCHANGED <<QueueBatch, QueueMutex, TotalProcessed, limits, processedItems,
                   errorsCount, limit, todo, jsonData, stopPc, now,
                   prod, appended, removedLog, sentLog, capSeen>>

\* The answer has success = true.
ProcessQueue_SubmitSucceeds ==
    /\ pc = "submit"
    /\ pc' = "lock2"
    /\ failStreak' = 0
    /\ UNCHANGED <<QueueBatch, QueueMutex, TotalProcessed, limits, processedItems,
                   errorsCount, limit, todo, jsonData, stopPc, now,
                   prod, appended, removedLog, sentLog, capSeen>>

\* Mutant: the mock server refuses a batch as long as its limit as well.
Blocked_Strict(batch, lim) == Len(batch) >= lim

\* The mock server's Process: if len(batch) > int(BatchLengthLimit)
\* { return ErrBlocked }.
Blocked(batch, lim) == Len(batch) > lim

\* The submission goes to the mock server, whose BatchLengthLimit is the
\* Number it answered to the limits request: its HandleProcess answers 400
\* with success = false and "blocked" when Process refuses the batch, and
\* 200 with success = true otherwise; ProcessQueue returns the error or goes
\* on accordingly.
ProcessQueue_SubmitToMock ==
    /\ pc = "submit"
    /\ IF Blocked(jsonData, limits.Number)
       THEN /\ pc' = "retErr"
            /\ failStreak' = Min(ErrorLimit + 1, failStreak + 1)
       ELSE /\ pc' = "lock2"
            /\ failStreak' = 0
    /\ UNCHANGED <<QueueBatch, QueueMutex, TotalProcessed, limits, processedItems,
                   errorsCount, limit, todo, jsonData, stopPc, now,
                   prod, appended, removedLog, sentLog, capSeen>>

\* Queue.Mutex.Lock() before the prefix is removed.
ProcessQueue_Lock2 ==
    /\ pc = "lock2"
    /\ QueueMutex = "free"
    /\ QueueMutex' = "drain"
    /\ pc' = "remove"
    /\ UNCHANGED <<QueueBatch, TotalProcessed, limits, processedItems, errorsCount,
                   limit, todo, jsonData, stopPc, now, prod,
                   appended, removedLog, sentLog, failStreak, capSeen>>

\* The first limit items are removed, Queue.Mutex.Unlock().
ProcessQueue_Remove ==
    /\ pc = "remove"
    /\ QueueMutex = "drain"
    /\ QueueBatch' = RemoveHead(QueueBatch, limit)
    /\ removedLog' = removedLog \o Gone(QueueBatch, QueueBatch')
    /\ QueueMutex' = "free"
    /\ pc' = "count"
    /\ UNCHANGED <<TotalProcessed, limits, processedItems, errorsCount, limit,
                   todo, jsonData, stopPc, now, prod, appended,
                   sentLog, failStreak, capSeen>>

\* TotalProcessed += limit, return nil.
ProcessQueue_Count ==
    /\ pc = "count"
    /\ TotalProcessed' = AddProcessed(TotalProcessed, limit)
    /\ pc' = "retNil"
    /\ UNCHANGED <<QueueBatch, QueueMutex, limits, processedItems, errorsCount,
                   limit, todo, jsonData, stopPc, now, prod,
                   appended, removedLog, sentLog, failStreak, capSeen>>

\* ---------------------------------------------------------------- Next
Producer ==
    \E p \in Producers :
        \/ HandleProcess_Reject(p)
        \/ \E k \in 1..MaxItems : HandleProcess_Lock(p, k)
        \/ HandleProcess_Append(p)

RunProcess ==
    \/ \E n \in 1..MaxNumber, d \in 1..MaxDuration : RunProcess_Start(n, d)
    \/ RunProcess_Fail

\* The steps of the goroutine up to the submission.
DrainCheck ==
    \/ Loop_SelectDefault
    \/ Loop_AfterProcessQueue
    \/ ProcessQueue_CheckEmpty
    \/ \E timestamp \in 0..Horizon : ProcessQueue_Range(timestamp)
    \/ ProcessQueue_CheckLimit
    \/ ProcessQueue_Lock
    \/ ProcessQueue_Marshal
    \/ ProcessQueue_Record

\* The steps of the goroutine after a successful submission.
DrainRemove ==
    \/ ProcessQueue_Lock2
    \/ ProcessQueue_Remove
    \/ ProcessQueue_Count

\* Every behaviour of the client in which the remote side fails at most
\* MaxFailStreak times in a row.
Next ==
    \/ Tick
    \/ RunProcess
    \/ Producer
    \/ \E h \in Stoppers : HandleStop_Send(h)
    \/ \E h \in Stoppers : Loop_SelectStop(h)
    \/ DrainCheck
    \/ DrainRemove
    \/ (failStreak < MaxFailStreak /\ ProcessQueue_SubmitFails)
    \/ ProcessQueue_SubmitSucceeds

Spec == Init /\ [][Next]_vars

\* The goroutine keeps running, the clock keeps advancing and a producer that
\* holds the mutex goes on.
Fairness ==
    /\ WF_vars(Tick)
    /\ WF_vars(DrainCheck)
    /\ WF_vars(DrainRemove)
    /\ WF_vars(ProcessQueue_SubmitFails)
    /\ WF_vars(ProcessQueue_SubmitSucceeds)
    /\ \A p \in Producers : WF_vars(HandleProcess_Append(p))

\* The remote side fails every submission and nobody asks for a stop.
NextDown ==
    \/ Tick
    \/ RunProcess
    \/ Producer
    \/ DrainCheck
    \/ ProcessQueue_SubmitFails

SpecDown == Init /\ [][NextDown]_vars /\ Fairness

\* The remote side accepts every submission and nobody asks for a stop.
NextUp ==
    \/ Tick
    \/ RunProcess
    \/ Producer
    \/ DrainCheck
    \/ DrainRemove
    \/ ProcessQueue_SubmitSucceeds

SpecUp == Init /\ [][NextUp]_vars /\ Fairness

\* The remote side accepts every submission and a stop may be asked for; a
\* request that the goroutine can receive is received.
NextStop ==
    \/ NextUp
    \/ \E h \in Stoppers : HandleStop_Send(h)
    \/ \E h \in Stoppers : Loop_SelectStop(h)

SpecStop ==
    /\ Init /\ [][NextStop]_vars
    /\ Fairness
    /\ \A h \in Stoppers : WF_vars(Loop_SelectStop(h))

\* The remote side fails or accepts any submission, so that the goroutine may
\* return after 10 errors in a row as well as for a stop; one producer
\* enqueues.
NextHalt ==
    \/ Tick
    \/ RunProcess
    \/ \E k \in 1..MaxItems : HandleProcess_Lock("p1", k)
    \/ HandleProcess_Append("p1")
    \/ \E h \in Stoppers : HandleStop_Send(h)
    \/ \E h \in Stoppers : Loop_SelectStop(h)
    \/ DrainCheck
    \/ DrainRemove
    \/ ProcessQueue_SubmitFails
    \/ ProcessQueue_SubmitSucceeds

SpecHalt == Init /\ [][NextHalt]_vars

\* The remote side accepts every submission, nobody asks for a stop, and the
\* producers also send requests that do not bind.
NextIngest ==
    \/ NextUp
    \/ \E p \in Producers, body \in BadBodies : HandleProcess_BadRequest(p, body)

SpecIngest == Init /\ [][NextIngest]_vars

\* The client run against the mock server, with no stop asked for.
NextMock ==
    \/ Tick
    \/ RunProcess
    \/ Producer
    \/ DrainCheck
    \/ DrainRemove
    \/ ProcessQueue_SubmitToMock

SpecMock == Init /\ [][NextMock]_vars

\* ---------------------------------------------------------------- claims
Running == pc \notin {"init", "nofetch", "stopped", "exited"}

MinOf(S) == CHOOSE x \in S : \A y \in S : x <= y
MaxOf(S) == CHOOSE x \in S : \A y \in S : x >= y

\* C1. No loss on failure: whenever ProcessQueue has returned an error, the
\* items it marshalled are still the head of the queue, in the same order and
\* number; the failing step itself changes neither the queue nor the
\* processed counter, and nothing has been removed or counted for it.
C1_NoLossOnFailure ==
    [][pc' = "retErr" =>
          /\ Len(jsonData') >= 1
          /\ Len(QueueBatch') >= Len(jsonData')
          /\ SubSeq(QueueBatch', 1, Len(jsonData')) = jsonData'
          /\ TotalProcessed' = TotalProcessed
          /\ TotalProcessed' + Len(QueueBatch') = appended'
          /\ (pc = "submit" => QueueBatch' = QueueBatch /\ jsonData' = jsonData)]_vars

\* A failed submission of two items behind which a producer has appended.
C1_Witness ==
    pc = "retErr" /\ Len(jsonData) >= 2 /\ Len(QueueBatch) > Len(jsonData)

\* C2 (as claimed). Quota non-violation: the number of items submitted with
\* timestamps in the window (now - D, now] never exceeds N.  Every window
\* (t - D, t] is the window at now when the clock reads t, and a submission
\* stamped t is made while the clock reads t.
C2_QuotaNonViolation ==
    SumOver(sentLog, {a \in DOMAIN sentLog : a < limits.Duration}) <= limits.Number

\* C3 (as claimed). Streak termination: once 10 submissions have failed with
\* no successful submission between them, the goroutine has returned or is
\* returning from the failed call on its way out; it never goes on to another
\* iteration.
C3_StreakTermination ==
    failStreak >= ErrorLimit =>
        (Stopped \/ (pc = "retErr" /\ errorsCount = ErrorLimit - 1))

\* C4 (as claimed). Persistent failure stops the loop: with a non-empty queue
\* and a remote side that fails every submission, the running loop eventually
\* reaches Stopped, and there the queue holds every appended item and the
\* processed counter is still 0.
C4_PersistentFailureStops ==
    /\ (Running /\ Len(QueueBatch) > 0) ~> Stopped
    /\ [](Stopped => Len(QueueBatch) = appended /\ TotalProcessed = 0)

\* C5. Order preservation: the items removed so far, in the order of their
\* removal, are the first items in the order of their appending (no item
\* twice, none skipped), and the queue holds the rest in that order.
C5_OrderPreservation ==
    /\ Len(removedLog) <= appended
    /\ \A i \in 1..Len(removedLog) : removedLog[i] = i
    /\ removedLog \o QueueBatch = [i \in 1..appended |-> i]

\* Items were removed while later ones are still queued.
C5_Witness == Len(removedLog) >= 2 /\ Len(QueueBatch) >= 1

\* C6. Exactly-once removal: the removal step after a successful submission
\* finds at least limit items in the queue and removes exactly the limit
\* items that were marshalled and sent, from the head; no other step removes
\* an item.
C6_ExactlyOnceRemoval ==
    [][/\ (pc = "remove" /\ pc' = "count") =>
            /\ limit >= 1
            /\ Len(jsonData) = limit
            /\ Len(QueueBatch) >= limit
            /\ QueueBatch = jsonData \o QueueBatch'
            /\ removedLog' = removedLog \o jsonData
       /\ (Range(QueueBatch) \ Range(QueueBatch') # {}) =>
            (pc = "remove" /\ pc' = "count")]_vars

\* A removal done for a prefix behind which the queue has grown since it was
\* read: the window was empty, the prefix is shorter than the limit, and the
\* queue is not empty after the removal.
C6_Witness ==
    /\ pc = "count"
    /\ Cardinality(DOMAIN processedItems) = 1
    /\ Len(jsonData) < limits.Number
    /\ Len(QueueBatch) >= 1

\* C7. Conservation: the processed counter starts at 0, never decreases, is
\* changed only by the goroutine's counting step, and outside the bookkeeping
\* of a successful submission (between the removal and the counting) the
\* items appended so far are the processed ones plus the queued ones.
C7_Conservation ==
    /\ TotalProcessed = 0
    /\ [](pc # "count" => appended = TotalProcessed + Len(QueueBatch))
    /\ [][/\ TotalProcessed' >= TotalProcessed
          /\ TotalProcessed' # TotalProcessed => (pc = "count" /\ pc' = "retNil")]_vars

\* Items were counted while others are queued.
C7_Witness == pc = "retNil" /\ TotalProcessed >= 2 /\ Len(QueueBatch) >= 1

\* C8. Empty enqueue is rejected without effect: a request answered without
\* taking the mutex is answered with 400, success = false and "No items
\* provided" and changes nothing but that answer; no request goes for the
\* mutex with an empty list; a request that does is answered with 200 and
\* success = true, and all its items are appended at the tail.
C8_EmptyEnqueueRejected ==
    [][prod' # prod =>
         \A p \in Producers :
          /\ (prod[p].pc = "idle" /\ prod'[p].pc = "idle" /\ prod'[p] # prod[p]) =>
                /\ prod'[p].resp = [status |-> 400, success |-> FALSE,
                                    error |-> "No items provided"]
                /\ UNCHANGED <<QueueBatch, QueueMutex, TotalProcessed, limits,
                               processedItems, errorsCount, pc, limit, todo,
                               jsonData, stopPc, appended>>
          /\ prod'[p].pc = "append" => prod'[p].len >= 1
          /\ (prod[p].pc = "append" /\ prod'[p].pc = "idle") =>
                /\ prod'[p].resp = [status |-> 200, success |-> TRUE, error |-> ""]
                /\ Len(QueueBatch') = Len(QueueBatch) + prod[p].len
                /\ SubSeq(QueueBatch', 1, Len(QueueBatch)) = QueueBatch
                /\ \A i \in 1..prod[p].len :
                      QueueBatch'[Len(QueueBatch) + i] = appended + i]_vars

\* One producer was rejected, another was accepted, items are queued.
C8_Witness ==
    \E p, q \in Producers :
        /\ prod[p].resp.status = 400
        /\ prod[q].resp.status = 200
        /\ Len(QueueBatch) >= 1

C10_BatchSizingAsClaimed ==
    [][/\ (pc = "marshal" /\ pc' = "record") =>
            \E r \in capSeen : limit' = Min(r, Len(QueueBatch))
       /\ (pc = "range" /\ pc' = "retNil") => 0 \in capSeen]_vars

\* C10 (amended). The number of items submitted is min(r, queue length) >= 1
\* for an r between the remaining capacity at the start of the scan and the
\* remaining capacity at its end (one value when the capacity does not change
\* during the scan), the submitted items are the first of the queue, and a
\* call that returns for lack of capacity has found the remaining capacity 0
\* at the start of the scan.
C10_BatchSizing ==
    [][/\ (pc = "marshal" /\ pc' = "record") =>
            /\ \E r \in MinOf(capSeen)..MaxOf(capSeen) :
                  limit' = Min(r, Len(QueueBatch))
            /\ limit' >= 1
            /\ jsonData' = SubSeq(QueueBatch, 1, limit')
       /\ (pc = "range" /\ pc' = "retNil") => MinOf(capSeen) = 0]_vars

\* The capacity changed during the scan and the queue is longer than the
\* limit the scan arrived at.
C10_Witness ==
    pc = "marshal" /\ Cardinality(capSeen) >= 2 /\ Len(QueueBatch) > limit

\* C11 (as claimed). Quota is recorded only on success: a step of the
\* goroutine that adds an entry to the window, or changes the count of one, is
\* made after the submission was confirmed successful, so a failed attempt
\* returns with the window entries it found.  (A tick of the clock changes no
\* position of the goroutine.)
C11_RecordOnlyOnSuccess ==
    [][(/\ pc' # pc
        /\ \E k \in DOMAIN processedItems' :
              k \notin DOMAIN processedItems
                  \/ processedItems'[k] # processedItems[k])
          => pc \in {"lock2", "remove", "count"}]_vars

\* C12. Stop signal: a stop requested while the loop is running leads to the
\* loop having returned; the goroutine returns for a stop only at the select
\* at the top of an iteration and begins no iteration there while a request
\* is waiting; when it has returned, no call of ProcessQueue is left half
\* done (the mutex is not held by it and every appended item is either
\* counted or queued); and once HandleStop has been answered the goroutine
\* has returned and submits nothing more.
C12_StopSignal ==
    /\ \A h \in Stoppers : (stopPc[h] = "sending" /\ Running) ~> Stopped
    /\ [](pc = "stopped" =>
             /\ QueueMutex # "drain"
             /\ appended = TotalProcessed + Len(QueueBatch)
             /\ Len(removedLog) = TotalProcessed)
    /\ []((\E h \in Stoppers : stopPc[h] = "done") => pc = "stopped")
    /\ [][/\ (pc' = "stopped" /\ pc # "stopped") =>
               /\ pc = "select"
               /\ \E h \in Stoppers : stopPc[h] = "sending" /\ stopPc'[h] = "done"
          /\ (pc = "select" /\ \E h \in Stoppers : stopPc[h] = "sending") =>
               pc' \in {"select", "stopped"}
          /\ (\E h \in Stoppers : stopPc[h] = "done") =>
               /\ pc' = "stopped"
               /\ UNCHANGED <<jsonData, limit, TotalProcessed, removedLog>>
               /\ \A a \in DOMAIN sentLog : sentLog'[a] <= sentLog[a]
                                             \/ a > 0]_vars

\* The goroutine has returned for a stop after it had counted items, with
\* items left in the queue.
C12_Witness ==
    /\ pc = "stopped"
    /\ \E h \in Stoppers : stopPc[h] = "done"
    /\ TotalProcessed >= 1
    /\ Len(QueueBatch) >= 1

\* C13 (as claimed). The stop request is non-blocking: every call of
\* HandleStop is eventually answered.  The only receiver on Channel is the
\* goroutine, and a goroutine that has returned or was never started stays
\* so; hence no call is ever waiting in its send while there is no goroutine
\* to receive from it.
C13_StopReturns ==
    \A h \in Stoppers :
        stopPc[h] = "sending" => pc \notin {"nofetch", "stopped", "exited"}

\* C14. Stopped is terminal: once the goroutine has received a stop or has
\* counted 10 errors in a row, it has returned and its position never changes
\* again; from then on nothing is marshalled or submitted, no window entry is
\* written, no item leaves the queue, the mutex is never taken by the
\* goroutine and the processed counter keeps its value, while a producer is
\* still answered and its items are appended behind the ones in the queue.
C14_StoppedTerminal ==
    [][(\/ Stopped
        \/ \E h \in Stoppers : stopPc[h] = "done"
        \/ StreakExhausted(errorsCount)) =>
          /\ Stopped
          /\ pc' = pc
          /\ UNCHANGED <<TotalProcessed, removedLog, jsonData, limit,
                         errorsCount, failStreak>>
          /\ sentLog'[0] <= sentLog[0]
          /\ Cardinality(DOMAIN processedItems') <= Cardinality(DOMAIN processedItems)
          /\ QueueMutex' # "drain"
          /\ Len(QueueBatch') >= Len(QueueBatch)
          /\ SubSeq(QueueBatch', 1, Len(QueueBatch)) = QueueBatch]_vars

\* The goroutine has returned after 10 errors in a row, items had been
\* counted before, and two or more items, the last appended one among them,
\* are in the queue.
C14_Witness ==
    /\ pc = "exited"
    /\ TotalProcessed >= 1
    /\ Len(QueueBatch) >= 2
    /\ QueueBatch[Len(QueueBatch)] = appended
    /\ Len(removedLog) + 1 < appended

\* C15 (as claimed). Every read and every write of the queue is made while
\* holding Queue.Mutex: the producer's append by the producer that holds it,
\* and the goroutine's emptiness check, its read of the length and the
\* prefix, and its removal by the goroutine holding it, so that none of them
\* is made while a producer is between its Lock and its Unlock.
C15_QueueAccessLocked ==
    [][/\ \A p \in Producers :
             (prod[p].pc = "append" /\ prod'[p].pc = "idle") => QueueMutex = p
       /\ (pc \in {"pq", "marshal", "remove"} /\ pc' # pc) =>
             /\ QueueMutex = "drain"
             /\ \A p \in Producers : prod[p].pc # "append"
       /\ QueueBatch' # QueueBatch => QueueMutex # "free"]_vars

\* C16. Quota unavailable: when RunProcess is over and no limits were
\* obtained, no goroutine runs (the position is that of the early return for
\* good), nothing was marshalled, recorded or submitted, nothing was removed,
\* the goroutine does not hold the mutex, the processed counter is 0 and the
\* queue holds every item appended so far, in order.
C16_QuotaUnavailable ==
    (pc # "init" /\ limits = NoLimits) =>
        /\ pc = "nofetch"
        /\ TotalProcessed = 0
        /\ removedLog = <<>>
        /\ jsonData = <<>>
        /\ processedItems = EmptyMap
        /\ \A a \in DOMAIN sentLog : sentLog[a] = 0
        /\ QueueMutex # "drain"
        /\ errorsCount = 0
        /\ QueueBatch = [i \in 1..appended |-> i]

\* The limits could not be fetched and both producers have enqueued since.
C16_Witness ==
    /\ pc = "nofetch"
    /\ \A p \in Producers : prod[p].resp.status = 200
    /\ Len(QueueBatch) >= 2

\* C17. A malformed enqueue request is rejected without effect: a request
\* with no body or with a body that does not parse is answered at once with
\* 400, success = false and the binding error as text ("invalid request"
\* for the missing body, and never the text of the empty list), and the step
\* changes neither the queue nor the mutex nor anything of the goroutine.
C17_MalformedRejected ==
    [][\A p \in Producers :
          (prod'[p] # prod[p] /\ prod'[p].body \in BadBodies) =>
              /\ prod[p].pc = "idle" /\ prod'[p].pc = "idle"
              /\ prod'[p].resp.status = 400
              /\ prod'[p].resp.success = FALSE
              /\ prod'[p].body = "absent" => prod'[p].resp.error = "invalid request"
              /\ prod'[p].resp.error \notin {"", "No items provided"}
              /\ UNCHANGED <<QueueBatch, QueueMutex, TotalProcessed, limits,
                             processedItems, errorsCount, pc, limit, todo,
                             jsonData, stopPc, appended, removedLog>>]_vars

\* A request without a body was rejected while the other producer holds the
\* mutex for its append and items are queued.
C17_Witness ==
    \E p, q \in Producers :
        /\ prod[p].body = "absent" /\ prod[p].resp.status = 400
        /\ prod[q].pc = "append"
        /\ Len(QueueBatch) >= 1

\* C18 (as claimed). The error streak counter, whenever the goroutine is at
\* the top of an iteration, equals the number of submissions that have
\* failed since the last successful one (or since the start), and it never
\* exceeds 10.
C18_StreakCounter ==
    /\ errorsCount <= ErrorLimit
    /\ pc = "select" => errorsCount = failStreak

\* C19. The goroutine never holds Queue.Mutex while a network call is in
\* flight: it holds the mutex exactly at its two critical sections (reading
\* the prefix, removing it), so while it fetches the limits or has a
\* submission pending the mutex is free or held by a producer, and a producer
\* holds it exactly between its Lock and its Unlock.
C19_NoLockAcrossNetwork ==
    /\ QueueMutex = "drain" <=> pc \in {"marshal", "remove"}
    /\ pc \in {"init", "record", "submit"} => QueueMutex \in {"free"} \cup Producers
    /\ \A p \in Producers : prod[p].pc = "append" <=> QueueMutex = p

\* A submission is pending and a producer has taken the mutex to append
\* behind the items being submitted.
C19_Witness ==
    /\ pc = "submit"
    /\ Len(jsonData) >= 1
    /\ \E p \in Producers : QueueMutex = p /\ prod[p].len >= 1

\* C20. Every batch the goroutine submits has between 1 and N items, N the
\* fetched limit; run against the mock server no submission is refused as
\* blocked: ProcessQueue never returns an error, no submission has failed
\* and the error streak counter stays 0.
C20_BatchWithinLimit ==
    /\ pc \in {"record", "submit"} =>
           /\ Len(jsonData) = limit
           /\ 1 <= Len(jsonData) /\ Len(jsonData) <= limits.Number
    /\ pc # "retErr"
    /\ failStreak = 0
    /\ errorsCount = 0

\* A batch of exactly N >= 2 items is at the mock server after an earlier
\* batch was accepted and counted.
C20_Witness ==
    /\ pc = "submit"
    /\ limits.Number >= 2
    /\ Len(jsonData) = limits.Number
    /\ TotalProcessed >= 1

====
